---- MODULE Spec2Model ----
(***************************************************************************)
(* Contract-signing token subsystem of the RAFC backend                    *)
(* (src/src/routers/contratos_firma_tokens.ts): issuance of a signing      *)
(* token, its public validation, and its transactional consumption that    *)
(* stores a signed contract and marks the token used.                      *)
(*                                                                         *)
(* The datastore is MySQL/InnoDB reached through a mysql2 pool: pool.query *)
(* runs one autocommit statement, a pooled connection runs a transaction   *)
(* whose writes are private until COMMIT, and SELECT ... FOR UPDATE takes  *)
(* the row lock until COMMIT or ROLLBACK.  Each request handler is a       *)
(* process; a step of a process is the code between two awaits.            *)
(*                                                                         *)
(* Time is in milliseconds since the start of the run (Date.now()); the    *)
(* DATETIME columns hold whole seconds.                                    *)
(***************************************************************************)
EXTENDS Integers, Sequences, FiniteSets, TLC

(* ------------------------------ bounds -------------------------------- *)

\* concurrent request handlers
NProcs == 2
\* rows the token table may hold
MaxTokens == 1
\* datastore errors injected in one run
MaxFaults == 1
\* contract rows inserted through POST /contratos-jugadores
MaxContratos == 1
\* callers of initDb()
NCallers == 3
\* initialisation attempts initDb() starts
MaxAttempts == 2

Procs == 1..NProcs

\* the instants Date.now() takes in a run, in ms
Instants == {500, 60000, 60001}

\* the time zones the process may run in, as minutes east of UTC: UTC and
\* America/Santiago (UTC-3)
TimeZones == {0, -180}

(* -------------------------- program constants ------------------------- *)

\* const MAX_BYTES = Number(process.env.CONTRATOS_MAX_BYTES || 12 * 1024 * 1024)
MAX_BYTES == 12 * 1024 * 1024
\* ttl_minutes ... .max(60 * 24 * 14)
MaxTtlMinutes == 60 * 24 * 14
\* parsed.data.ttl_minutes ?? 60 * 24 * 3
DefaultTtlMinutes == 60 * 24 * 3
\* TokenParam: z.string().min(10).max(300)
TokenMinLen == 10
TokenMaxLen == 300
\* FirmarSchema: contrato_base64: z.string().min(10)
ContratoMinLen == 10
\* mysql.createPool({ connectionLimit: 4 })
connectionLimit == 4
\* MySQL error numbers the handlers inspect
ER_DUP_ENTRY == 1062
ER_NO_REFERENCED_ROW_2 == 1452
\* InnoDB lock wait timeout, not inspected by the handlers
ER_LOCK_WAIT_TIMEOUT == 1205
\* an error without a MySQL errno (connection lost, pool closed)
NoErrno == 0

\* SQL NULL in a DATETIME or integer column
NULL == -1

(* ------------------------------ inputs -------------------------------- *)

\* Raw tokens a client may present.  Tokens 1 and 2 are 64 hex characters
\* (what makeRawToken produces); token 3 is a 9-character string; token 4 is
\* 64 characters long and holds characters that are not URL-safe, such as
\* "$" and " ".
RawTokens == 1..4
RawLen(raw) == IF raw = 3 THEN 9 ELSE 64
\* the string is made of URL-safe characters only
UrlSafe(raw) == raw # 4
\* makeRawToken(): crypto.randomBytes(32).toString("hex")
makeRawToken == {raw \in RawTokens : RawLen(raw) = 64 /\ UrlSafe(raw)}

\* sha256Hex: a one-way map of the raw token, injective on RawTokens
sha256Hex(raw) == (raw * 7 + 3) % 11

\* A contrato_base64 string: whether it starts with "data:", the index of
\* its first comma (-1: none), its length.
DocShort == [data |-> FALSE, comma |-> -1, length |-> 9]
DocPdf   == [data |-> TRUE,  comma |-> 27, length |-> 1028]
\* 16777218 base64 characters: floor(3n/4) = MAX_BYTES + 1
DocOver  == [data |-> FALSE, comma |-> -1, length |-> 16777218]
\* a 50 MB document behind a data-URL prefix
Doc50MB  == [data |-> TRUE,  comma |-> 27, length |-> 69905096]

\* The bodies and parameters of POST /:token/firmar a client may send:
\* the raw token, contrato_base64, and acepta_terminos as it arrives in the
\* JSON body ("undefined": key absent).
FirmarInputs ==
  { [token |-> raw, contrato_base64 |-> DocPdf, acepta_terminos |-> "true"]
      : raw \in {1, 3} }
  \cup
  { [token |-> 1, contrato_base64 |-> d, acepta_terminos |-> "true"]
      : d \in {DocShort, DocOver, Doc50MB} }
  \cup
  { [token |-> 1, contrato_base64 |-> DocPdf, acepta_terminos |-> a]
      : a \in {"undefined", "false"} }

\* The jugadores table (maintained by another router): RUTs 1 and 3 exist
jugadores == {1, 3}
\* The guardians on record, jugadores.rut_apoderado: the guardian of player 1
\* has RUT 2 and is not a player
apoderados == {2}

\* The bodies of POST / a staff caller may send; ttl_minutes = 0 stands for
\* an absent key where given is FALSE.
IssueBody(rj, ra, email, given, ttl) ==
  [rut_jugador |-> rj, rut_apoderado |-> ra, email_destino |-> email,
   ttl_given |-> given, ttl_minutes |-> ttl]
IssueInputs ==
  { IssueBody(1, 1, "a@b.cl", TRUE, 1),
    IssueBody(1, 1, "undefined", TRUE, MaxTtlMinutes + 1),
    IssueBody(1, 1, "undefined", TRUE, 0),
    IssueBody(1, 1, "not-an-email", TRUE, 1),
    IssueBody(0, 1, "undefined", TRUE, 1),
    IssueBody(1, 0, "undefined", TRUE, 1),
    IssueBody(2, 1, "undefined", TRUE, 1),
    IssueBody(1, 2, "undefined", TRUE, 1) }

\* a well-formed request for POST / and for POST /:token/firmar
IssueInput == IssueBody(1, 1, "a@b.cl", TRUE, 1)
FirmarInput == [token |-> 1, contrato_base64 |-> DocPdf, acepta_terminos |-> "true"]

(* ----------------------------- utilities ------------------------------ *)

\* stripDataUrlPrefix, on the length of the string
stripDataUrlPrefix(s) ==
  IF s.data /\ s.comma > -1 THEN s.length - (s.comma + 1) ELSE s.length

\* approxBytes = Math.floor((b64.length * 3) / 4)
approxBytes(b64len) == (b64len * 3) \div 4

\* toMySQLDateTime: d.toISOString().slice(0, 19): the whole seconds of d
toMySQLDateTime(d) == d \div 1000

\* addMinutes
addMinutes(date, minutes) == date + minutes * 60 * 1000

\* The instant a DATETIME column denotes when its digits are read as UTC,
\* which is how toMySQLDateTime wrote them, in ms
UtcMs(col) == col * 1000

\* z.coerce.boolean().optional().default(true)
CoerceTerms(v) ==
  CASE v = "undefined" -> TRUE
    [] v = "true" -> TRUE
    [] v = "false" -> FALSE
    [] OTHER -> TRUE

(* ------------------------------- state -------------------------------- *)

VARIABLES
  now,            \* Date.now() / the datastore clock, ms
  tz,             \* offset of the process's local time from UTC, minutes
  tokens,         \* committed rows of contratos_firma_tokens, by id
  contratos,      \* committed rows of contratos_jugadores
  nextContratoId, \* AUTO_INCREMENT of contratos_jugadores
  rowLock,        \* token id -> the handler whose transaction locks the row, 0: none
  faults,         \* datastore errors injected so far
  pc,             \* where each handler stands
  req,            \* the request a handler is serving (or served last)
  loc,            \* the handler's local constants and variables
  conn,           \* the handler holds a pooled connection (conn, mustRelease)
  txIns,          \* contract row inserted by the handler's open transaction
  txUpd,          \* used_at written by the handler's open transaction
  resp,           \* the reply sent
  obs,            \* what the handler saw when it derived the token's status
  pool,           \* config.ts: let pool (0: null, else the pool created k-th)
  initializing,   \* config.ts: let initializing (0: null, else a promise of attempts)
  attempts,       \* the promises of the async blocks initDb() started, in order
  calls           \* each caller's initDb() call and the promise it returned

dbVars == <<tokens, contratos, nextContratoId, rowLock>>
txVars == <<conn, txIns, txUpd>>
initVars == <<pool, initializing, attempts, calls>>
routerVars == <<now, tz, tokens, contratos, nextContratoId, rowLock, faults, pc, req,
                loc, conn, txIns, txUpd, resp, obs>>
vars == <<now, tz, tokens, contratos, nextContratoId, rowLock, faults, pc, req,
          loc, conn, txIns, txUpd, resp, obs, pool, initializing, attempts, calls>>

\* The callers of initDb(), and a caller that has not called
Callers == 1..NCallers
\* the async blocks initDb() may start
Attempts == 1..MaxAttempts
NoCall == [pc |-> "idle", promise |-> 0, joined |-> FALSE, result |-> 0]

\* let pool = null; let initializing = null
InitDbModule ==
  /\ pool = 0
  /\ initializing = 0
  /\ attempts = <<>>
  /\ calls = [c \in Callers |-> NoCall]

\* new Date(column).getTime(), in ms.  The pool is created without a
\* timezone option, so mysql2 builds the Date of a DATETIME column from its
\* digits read as local time of the process.
DateGetTime(col) == UtcMs(col) - tz * 60 * 1000

NoRow ==
  [id |-> 0, token_hash |-> 0, rut_jugador |-> 0, rut_apoderado |-> 0,
   email_destino |-> "NULL", expires_at |-> 0, used_at |-> NULL,
   created_at |-> 0, ip_created |-> 0, ip_used |-> NULL]

NoContrato ==
  [id |-> 0, rut_jugador |-> 0, rut_apoderado |-> 0, fecha_generacion |-> 0,
   contrato_base64 |-> 0, token_id |-> 0]

\* The locals of a handler: token_hash, pure (the stripped contrato_base64,
\* by its length), t (rows[0]), e (errno of the error caught), and of POST /
\* parsed (parsed.data), rawToken and row (the row to insert).
NoLoc ==
  [token_hash |-> 0, pure |-> 0, t |-> NoRow, e |-> NoErrno,
   parsed |-> IssueBody(0, 0, "undefined", FALSE, 0), rawToken |-> 0, row |-> NoRow]

\* What a handler saw at the moment it derived the status of the token:
\* whether a row was found, whether its used_at was set, where Date.now()
\* stood relative to the row's expires_at, and whether its locking read had
\* to wait for another transaction; and, for a firmar call, whether the call
\* arrived after the token had been consumed (late).  For an issue call:
\* how many raw tokens the call drew with makeRawToken (draws).  Kept on
\* record after the reply.
NoObs ==
  [found |-> FALSE, used |-> FALSE, clock |-> "none", waited |-> FALSE,
   late |-> FALSE, draws |-> 0]
Observe(row, at, waited) ==
  IF row.id = 0 THEN NoObs
  ELSE [found |-> TRUE, used |-> row.used_at # NULL,
        clock |-> IF at < DateGetTime(row.expires_at) THEN "before"
                  ELSE IF at = DateGetTime(row.expires_at) THEN "at"
                  ELSE "after",
        waited |-> waited, late |-> FALSE, draws |-> 0]

NoReq == [op |-> "none", token |-> 0, contrato_base64 |-> DocShort,
          acepta_terminos |-> "undefined"]
\* The reply: status code, message, and of the body the keys token,
\* contrato_id, rut_jugador, rut_apoderado, expires_at and error (0 or NULL:
\* absent).  error, e?.message, is told by the errno of the error caught.
NoReply ==
  [code |-> 0, message |-> "", token |-> 0, contrato_id |-> 0,
   rut_jugador |-> 0, rut_apoderado |-> 0, expires_at |-> NULL,
   error |-> NoErrno]

\* reply.code(c).send({ message })
Reply(c, m) == [NoReply EXCEPT !.code = c, !.message = m]

\* (req as any).ip: the requests come from one client address
ReqIp(p) == 7

\* WHERE token_hash = ? LIMIT 1 on the committed table
RowByHash(h) ==
  IF \E i \in 1..Len(tokens) : tokens[i].token_hash = h
  THEN tokens[CHOOSE i \in 1..Len(tokens) : tokens[i].token_hash = h]
  ELSE NoRow

\* the token rows the table has room for: the ids rowLock is kept for
TokenRoom == Cardinality(DOMAIN rowLock)

\* connections the pool can still hand out
FreeConns == connectionLimit - Cardinality({p \in DOMAIN conn : conn[p]})

\* const expired = new Date(t.expires_at).getTime() < Date.now()
\* variant of expired: the instant of expires_at counts as expired
expiredInclusive(row, at) == DateGetTime(row.expires_at) <= at

\* variant of expired: expires_at in milliseconds compared with a clock in seconds
expiredClockInSeconds(row, at) == DateGetTime(row.expires_at) < at \div 1000

expired(row, at) == DateGetTime(row.expires_at) < at
\* const used = !!t.used_at
used(row) == row.used_at # NULL

Init ==
  /\ now = 500
  /\ tz \in TimeZones
  /\ tokens = <<>>
  /\ contratos = {}
  /\ nextContratoId = 1
  /\ rowLock = [i \in 1..MaxTokens |-> 0]
  /\ faults = 0
  /\ pc = [p \in Procs |-> "idle"]
  /\ req = [p \in Procs |-> NoReq]
  /\ loc = [p \in Procs |-> NoLoc]
  /\ conn = [p \in Procs |-> FALSE]
  /\ txIns = [p \in Procs |-> NoContrato]
  /\ txUpd = [p \in Procs |-> NULL]
  /\ resp = [p \in Procs |-> NoReply]
  /\ obs = [p \in Procs |-> NoObs]
  /\ InitDbModule

\* The clock advances
Tick ==
  /\ \E n \in Instants : n > now /\ now' = n
  /\ UNCHANGED <<initVars, tz, dbVars, faults, pc, req, loc, txVars, resp, obs>>

\* Handler p moves to `to` with locals l
Goto(p, to, l) ==
  /\ pc' = [pc EXCEPT ![p] = to]
  /\ loc' = [loc EXCEPT ![p] = l]

\* return reply...: the handler is done
Send(p, r) ==
  /\ resp' = [resp EXCEPT ![p] = r]
  /\ pc' = [pc EXCEPT ![p] = "idle"]
  /\ loc' = [loc EXCEPT ![p] = NoLoc]

\* finally: conn.release(), after the rollback or commit ended the transaction
Release(p) ==
  /\ rowLock' = [i \in DOMAIN rowLock |-> IF rowLock[i] = p THEN 0 ELSE rowLock[i]]
  /\ txIns' = [txIns EXCEPT ![p] = NoContrato]
  /\ txUpd' = [txUpd EXCEPT ![p] = NULL]
  /\ conn' = [conn EXCEPT ![p] = FALSE]

(* ------------------------ GET /:token (validate) ---------------------- *)

\* TokenParam.safeParse
TokenParamOk(raw) == RawLen(raw) >= TokenMinLen /\ RawLen(raw) <= TokenMaxLen

ValidateStart(p, raw) ==
  /\ pc[p] = "idle"
  /\ req' = [req EXCEPT ![p] = [NoReq EXCEPT !.op = "validate", !.token = raw]]
  /\ obs' = [obs EXCEPT ![p] = NoObs]
  /\ IF ~TokenParamOk(raw)
     THEN Send(p, Reply(400, "Token invalido"))
     ELSE /\ Goto(p, "v_query", [NoLoc EXCEPT !.token_hash = sha256Hex(raw)])
          /\ resp' = [resp EXCEPT ![p] = NoReply]
  /\ UNCHANGED <<initVars, now, tz, dbVars, faults, txVars>>

\* await db.query(SELECT ... WHERE token_hash = ? LIMIT 1)
ValidateQuery(p) ==
  /\ pc[p] = "v_query"
  /\ FreeConns > 0
  /\ Goto(p, "v_check", [loc[p] EXCEPT !.t = RowByHash(loc[p].token_hash)])
  /\ UNCHANGED <<initVars, now, tz, dbVars, faults, req, txVars, resp, obs>>

\* variant of ValidateReply: the 200 reply carries the token_hash of the row
ValidateReplyEchoesHash(row, at) ==
  IF row.id = 0 THEN Reply(404, "Token no encontrado")
  ELSE IF expired(row, at) THEN Reply(410, "Token expirado")
  ELSE IF used(row) THEN Reply(409, "Token ya fue usado")
  ELSE [Reply(200, "token_valid") EXCEPT
          !.token = row.token_hash,
          !.rut_jugador = row.rut_jugador, !.rut_apoderado = row.rut_apoderado,
          !.expires_at = DateGetTime(row.expires_at)]

\* the status the handler derives from the row it read
ValidateReply(row, at) ==
  IF row.id = 0 THEN Reply(404, "Token no encontrado")
  ELSE IF expired(row, at) THEN Reply(410, "Token expirado")
  ELSE IF used(row) THEN Reply(409, "Token ya fue usado")
  ELSE [Reply(200, "token_valid") EXCEPT
          !.rut_jugador = row.rut_jugador, !.rut_apoderado = row.rut_apoderado,
          \* t.expires_at is a Date: JSON carries its instant
          !.expires_at = DateGetTime(row.expires_at)]

\* variant of ValidateCheck: the handler also records on the row the
\* address that looked the token up
ValidateCheckMarksRow(p) ==
  /\ pc[p] = "v_check"
  /\ Send(p, ValidateReply(loc[p].t, now))
  /\ obs' = [obs EXCEPT ![p] = Observe(loc[p].t, now, FALSE)]
  /\ tokens' = IF loc[p].t.id = 0 THEN tokens
               ELSE [tokens EXCEPT ![loc[p].t.id].ip_used = ReqIp(p)]
  /\ UNCHANGED <<initVars, now, tz, contratos, nextContratoId, rowLock, faults, req, txVars>>

ValidateCheck(p) ==
  /\ pc[p] = "v_check"
  /\ Send(p, ValidateReply(loc[p].t, now))
  /\ obs' = [obs EXCEPT ![p] = Observe(loc[p].t, now, FALSE)]
  /\ UNCHANGED <<initVars, now, tz, dbVars, faults, req, txVars>>

\* the query throws: catch, 500
ValidateThrow(p) ==
  /\ pc[p] = "v_query"
  /\ faults < MaxFaults
  /\ faults' = faults + 1
  /\ Send(p, Reply(500, "Error al validar token"))
  /\ UNCHANGED <<initVars, now, tz, dbVars, req, txVars, obs>>

(* ----------------------- POST /:token/firmar -------------------------- *)

\* FirmarSchema.safeParse: contrato_base64 is a string of 10 characters or more
FirmarSchemaOk(b) == b.contrato_base64.length >= ContratoMinLen

\* variant of FirmarPrecheck: the size of the document is not checked
FirmarPrecheckNoSize(b) ==
  IF ~TokenParamOk(b.token) THEN Reply(400, "Token invalido")
  ELSE IF ~FirmarSchemaOk(b) THEN Reply(400, "Payload invalido")
  ELSE IF ~CoerceTerms(b.acepta_terminos)
       THEN Reply(400, "Debes aceptar los terminos para firmar.")
  ELSE NoReply

\* the reply of the checks made before the datastore is touched, NoReply if
\* they all pass
FirmarPrecheck(b) ==
  IF ~TokenParamOk(b.token) THEN Reply(400, "Token invalido")
  ELSE IF ~FirmarSchemaOk(b) THEN Reply(400, "Payload invalido")
  ELSE IF ~CoerceTerms(b.acepta_terminos)
       THEN Reply(400, "Debes aceptar los terminos para firmar.")
  ELSE IF approxBytes(stripDataUrlPrefix(b.contrato_base64)) > MAX_BYTES
       THEN Reply(413, "El PDF excede el limite permitido")
  ELSE NoReply

FirmarStart(p, b) ==
  /\ pc[p] = "idle"
  /\ req' = [req EXCEPT ![p] =
               [op |-> "firmar", token |-> b.token,
                contrato_base64 |-> b.contrato_base64,
                acepta_terminos |-> b.acepta_terminos]]
  /\ obs' = [obs EXCEPT ![p] =
               [NoObs EXCEPT !.late = /\ FirmarPrecheck(b) = NoReply
                                      /\ used(RowByHash(sha256Hex(b.token)))]]
  /\ IF FirmarPrecheck(b) # NoReply
     THEN Send(p, FirmarPrecheck(b))
     ELSE /\ Goto(p, "c_getconn",
                  [NoLoc EXCEPT !.token_hash = sha256Hex(b.token),
                                !.pure = stripDataUrlPrefix(b.contrato_base64)])
          /\ resp' = [resp EXCEPT ![p] = NoReply]
  /\ UNCHANGED <<initVars, now, tz, dbVars, faults, txVars>>

\* conn = await db.getConnection(); mustRelease = true
GetConnection(p) ==
  /\ pc[p] = "c_getconn"
  /\ FreeConns > 0
  /\ conn' = [conn EXCEPT ![p] = TRUE]
  /\ Goto(p, "c_begin", loc[p])
  /\ UNCHANGED <<initVars, now, tz, dbVars, faults, req, txIns, txUpd, resp, obs>>

\* await conn.beginTransaction()
BeginTransaction(p) ==
  /\ pc[p] = "c_begin"
  /\ Goto(p, "c_select", loc[p])
  /\ UNCHANGED <<initVars, now, tz, dbVars, faults, req, txVars, resp, obs>>

\* variant of SelectForUpdate: a plain SELECT, which neither waits for nor
\* takes the row lock
SelectWithoutLock(p) ==
  /\ pc[p] = "c_select"
  /\ Goto(p, "c_check", [loc[p] EXCEPT !.t = RowByHash(loc[p].token_hash)])
  /\ UNCHANGED <<initVars, now, tz, dbVars, faults, req, txVars, resp, obs>>

\* SELECT ... WHERE token_hash = ? LIMIT 1 FOR UPDATE is sent.  If another
\* transaction holds the lock of the row the statement waits; otherwise it
\* locks the row (if there is one) and returns the committed row.
SelectForUpdate(p) ==
  /\ pc[p] = "c_select"
  /\ LET row == RowByHash(loc[p].token_hash) IN
       IF row.id # 0 /\ rowLock[row.id] # 0
       THEN /\ Goto(p, "c_lockwait", loc[p])
            /\ obs' = [obs EXCEPT ![p].waited = TRUE]
            /\ UNCHANGED rowLock
       ELSE /\ rowLock' = IF row.id # 0 THEN [rowLock EXCEPT ![row.id] = p] ELSE rowLock
            /\ Goto(p, "c_check", [loc[p] EXCEPT !.t = row])
            /\ UNCHANGED obs
  /\ UNCHANGED <<initVars, now, tz, tokens, contratos, nextContratoId, faults, req, txVars, resp>>

\* the transaction holding the row lock ended: the waiting statement locks
\* the row and returns it as committed now
LockGranted(p) ==
  /\ pc[p] = "c_lockwait"
  /\ LET row == RowByHash(loc[p].token_hash) IN
       /\ rowLock[row.id] = 0
       /\ rowLock' = [rowLock EXCEPT ![row.id] = p]
       /\ Goto(p, "c_check", [loc[p] EXCEPT !.t = row])
  /\ UNCHANGED <<initVars, now, tz, tokens, contratos, nextContratoId, faults, req, txVars,
                 resp, obs>>

\* variant of FirmarAbort: used_at is not looked at
FirmarAbortIgnoresUsed(row, at) ==
  IF row.id = 0 THEN 404
  ELSE IF expired(row, at) THEN 410
  ELSE 0

\* the branch taken on the locked row: the status to abort with, 0 to go on
FirmarAbort(row, at) ==
  IF row.id = 0 THEN 404
  ELSE IF expired(row, at) THEN 410
  ELSE IF used(row) THEN 409
  ELSE 0

FirmarCheck(p) ==
  /\ pc[p] = "c_check"
  /\ Goto(p, CASE FirmarAbort(loc[p].t, now) = 404 -> "c_rb404"
               [] FirmarAbort(loc[p].t, now) = 410 -> "c_rb410"
               [] FirmarAbort(loc[p].t, now) = 409 -> "c_rb409"
               [] OTHER -> "c_insert",
          loc[p])
  /\ obs' = [obs EXCEPT ![p] =
               [Observe(loc[p].t, now, obs[p].waited) EXCEPT !.late = obs[p].late]]
  /\ UNCHANGED <<initVars, now, tz, dbVars, faults, req, txVars, resp>>

AbortReply(at) ==
  CASE at = "c_rb404" -> Reply(404, "Token no encontrado")
    [] at = "c_rb410" -> Reply(410, "Token expirado")
    [] OTHER -> Reply(409, "Token ya fue usado")

\* variant of Rollback: the reply is returned without rollback or release
RollbackWithoutRelease(p) ==
  /\ pc[p] \in {"c_rb404", "c_rb410", "c_rb409"}
  /\ Send(p, AbortReply(pc[p]))
  /\ UNCHANGED <<initVars, now, tz, dbVars, faults, req, txVars, obs>>

\* await conn.rollback(); return reply.code(...); finally conn.release()
Rollback(p) ==
  /\ pc[p] \in {"c_rb404", "c_rb410", "c_rb409"}
  /\ Release(p)
  /\ Send(p, AbortReply(pc[p]))
  /\ UNCHANGED <<initVars, now, tz, tokens, contratos, nextContratoId, faults, req, obs>>

\* variant of InsertContrato: the INSERT goes through the pool, outside the
\* transaction, and is committed at once
InsertContratoAutocommit(p) ==
  /\ pc[p] = "c_insert"
  /\ contratos' = contratos \cup
        {[id |-> nextContratoId, rut_jugador |-> loc[p].t.rut_jugador,
          rut_apoderado |-> loc[p].t.rut_apoderado,
          fecha_generacion |-> toMySQLDateTime(now),
          contrato_base64 |-> loc[p].pure, token_id |-> loc[p].t.id]}
  /\ nextContratoId' = nextContratoId + 1
  /\ Goto(p, "c_update", loc[p])
  /\ UNCHANGED <<initVars, now, tz, tokens, rowLock, faults, req, txVars, resp, obs>>

\* INSERT INTO contratos_jugadores ... VALUES (?, ?, NOW(), ?); token_id is
\* not a column: it records which token's consumption inserted the row
InsertContrato(p) ==
  /\ pc[p] = "c_insert"
  /\ txIns' = [txIns EXCEPT ![p] =
        [id |-> nextContratoId, rut_jugador |-> loc[p].t.rut_jugador,
         rut_apoderado |-> loc[p].t.rut_apoderado,
         fecha_generacion |-> toMySQLDateTime(now),
         contrato_base64 |-> loc[p].pure, token_id |-> loc[p].t.id]]
  /\ nextContratoId' = nextContratoId + 1
  /\ Goto(p, "c_update", loc[p])
  /\ UNCHANGED <<initVars, now, tz, tokens, contratos, rowLock, faults, req, conn, txUpd,
                 resp, obs>>

\* variant of UpdateToken: the UPDATE goes through the pool, outside the
\* transaction, and is committed at once
UpdateTokenAutocommit(p) ==
  /\ pc[p] = "c_update"
  /\ tokens' = [tokens EXCEPT ![loc[p].t.id] =
        [@ EXCEPT !.used_at = toMySQLDateTime(now), !.ip_used = ReqIp(p)]]
  /\ txUpd' = [txUpd EXCEPT ![p] = toMySQLDateTime(now)]
  /\ Goto(p, "c_commit", loc[p])
  /\ UNCHANGED <<initVars, now, tz, contratos, nextContratoId, rowLock, faults, req, conn,
                 txIns, resp, obs>>

\* UPDATE contratos_firma_tokens SET used_at = NOW(), ip_used = ? WHERE id = ?
UpdateToken(p) ==
  /\ pc[p] = "c_update"
  /\ txUpd' = [txUpd EXCEPT ![p] = toMySQLDateTime(now)]
  /\ Goto(p, "c_commit", loc[p])
  /\ UNCHANGED <<initVars, now, tz, dbVars, faults, req, conn, txIns, resp, obs>>

\* variant of Commit: the contract row replaces the rows of the table
CommitReplacesContratos(p) ==
  /\ pc[p] = "c_commit"
  /\ tokens' = [tokens EXCEPT ![loc[p].t.id] =
        [@ EXCEPT !.used_at = txUpd[p], !.ip_used = ReqIp(p)]]
  /\ contratos' = {txIns[p]}
  /\ Release(p)
  /\ Send(p, [Reply(201, "ok") EXCEPT
                !.contrato_id = txIns[p].id,
                !.rut_jugador = loc[p].t.rut_jugador,
                !.rut_apoderado = loc[p].t.rut_apoderado])
  /\ UNCHANGED <<initVars, now, tz, nextContratoId, faults, req, obs>>

\* variant of Commit: the UPDATE has no WHERE id = ? and marks every token
CommitMarksEveryToken(p) ==
  /\ pc[p] = "c_commit"
  /\ tokens' = [k \in 1..Len(tokens) |->
        [tokens[k] EXCEPT !.used_at = txUpd[p], !.ip_used = ReqIp(p)]]
  /\ contratos' = contratos \cup {txIns[p]}
  /\ Release(p)
  /\ Send(p, [Reply(201, "ok") EXCEPT
                !.contrato_id = txIns[p].id,
                !.rut_jugador = loc[p].t.rut_jugador,
                !.rut_apoderado = loc[p].t.rut_apoderado])
  /\ UNCHANGED <<initVars, now, tz, nextContratoId, faults, req, obs>>

\* await conn.commit(): the writes of the transaction become visible
\* together; return reply.code(201); finally conn.release()
Commit(p) ==
  /\ pc[p] = "c_commit"
  /\ tokens' = [tokens EXCEPT ![loc[p].t.id] =
        [@ EXCEPT !.used_at = txUpd[p], !.ip_used = ReqIp(p)]]
  /\ contratos' = contratos \cup {txIns[p]}
  /\ Release(p)
  /\ Send(p, [Reply(201, "ok") EXCEPT
                !.contrato_id = txIns[p].id,
                !.rut_jugador = loc[p].t.rut_jugador,
                !.rut_apoderado = loc[p].t.rut_apoderado])
  /\ UNCHANGED <<initVars, now, tz, nextContratoId, faults, req, obs>>

\* the errno a failing datastore call may carry at each await
ErrnosAt(at) ==
  CASE at = "c_lockwait" -> {ER_LOCK_WAIT_TIMEOUT}
    [] at = "c_insert" -> {ER_NO_REFERENCED_ROW_2, NoErrno}
    [] OTHER -> {NoErrno}

\* an awaited datastore call of the handler throws
FirmarThrow(p) ==
  /\ pc[p] \in {"c_getconn", "c_begin", "c_select", "c_lockwait", "c_rb404", "c_rb410",
                "c_rb409", "c_insert", "c_update", "c_commit"}
  /\ faults < MaxFaults
  /\ faults' = faults + 1
  /\ \E errno \in ErrnosAt(pc[p]) : Goto(p, "c_catch", [loc[p] EXCEPT !.e = errno])
  /\ UNCHANGED <<initVars, now, tz, dbVars, req, txVars, resp, obs>>

CatchReply(errno) ==
  IF errno = ER_NO_REFERENCED_ROW_2
  THEN [Reply(409, "Violacion de clave foranea (ruts invalidos)") EXCEPT !.error = errno]
  ELSE [Reply(500, "Error al firmar/guardar contrato") EXCEPT !.error = errno]

\* variant of Catch: the reply is sent with the transaction left open
CatchWithoutRollback(p) ==
  /\ pc[p] = "c_catch"
  /\ Send(p, CatchReply(loc[p].e))
  /\ UNCHANGED <<initVars, now, tz, dbVars, faults, req, txVars, obs>>

\* catch: if (conn) await conn.rollback(); reply 409 or 500; finally release
Catch(p) ==
  /\ pc[p] = "c_catch"
  /\ Release(p)
  /\ Send(p, CatchReply(loc[p].e))
  /\ UNCHANGED <<initVars, now, tz, tokens, contratos, nextContratoId, faults, req, obs>>

(* ----------------------------- POST / (issue) ------------------------- *)

\* variant of CreateTokenSchemaOk: ttl_minutes without .max(60 * 24 * 14)
CreateTokenSchemaNoMax(b) ==
  /\ b.rut_jugador > 0
  /\ b.rut_apoderado > 0
  /\ b.email_destino # "not-an-email"
  /\ b.ttl_given => b.ttl_minutes > 0

\* CreateTokenSchema.safeParse
CreateTokenSchemaOk(b) ==
  /\ b.rut_jugador > 0
  /\ b.rut_apoderado > 0
  /\ b.email_destino # "not-an-email"
  /\ b.ttl_given => (b.ttl_minutes > 0 /\ b.ttl_minutes <= MaxTtlMinutes)

\* const ttl = parsed.data.ttl_minutes ?? 60 * 24 * 3
TtlOf(b) == IF b.ttl_given THEN b.ttl_minutes ELSE DefaultTtlMinutes

\* the row POST / inserts for body b, raw token raw, createdAt = new Date()
NewTokenRow(p, b, raw, createdAt) ==
  [id |-> 0, token_hash |-> sha256Hex(raw),
   rut_jugador |-> b.rut_jugador, rut_apoderado |-> b.rut_apoderado,
   email_destino |-> IF b.email_destino = "undefined" THEN "NULL" ELSE b.email_destino,
   expires_at |-> toMySQLDateTime(addMinutes(createdAt, TtlOf(b))),
   used_at |-> NULL,
   created_at |-> toMySQLDateTime(createdAt),
   ip_created |-> ReqIp(p), ip_used |-> NULL]

IssueStart(p, b) ==
  /\ pc[p] = "idle"
  /\ req' = [req EXCEPT ![p] = [NoReq EXCEPT !.op = "issue"]]
  /\ obs' = [obs EXCEPT ![p] = NoObs]
  /\ IF ~CreateTokenSchemaOk(b)
     THEN Send(p, Reply(400, "Payload invalido"))
     ELSE /\ Goto(p, "i_checks", [NoLoc EXCEPT !.parsed = b])
          /\ resp' = [resp EXCEPT ![p] = NoReply]
  /\ UNCHANGED <<initVars, now, tz, dbVars, faults, txVars>>

\* the two SELECT 1 FROM jugadores checks (the second looks rut_apoderado up
\* in jugadores too), then makeRawToken and the dates.  A fresh raw token is
\* drawn only while the table has room.
IssueChecks(p) ==
  /\ pc[p] = "i_checks"
  /\ FreeConns > 0
  /\ LET b == loc[p].parsed IN
       IF b.rut_jugador \notin jugadores
       THEN Send(p, Reply(409, "rut_jugador no existe")) /\ UNCHANGED obs
       ELSE IF b.rut_apoderado \notin jugadores
       THEN Send(p, Reply(409, "rut_apoderado no existe")) /\ UNCHANGED obs
       ELSE /\ obs' = [obs EXCEPT ![p].draws = @ + 1]
            /\ \E raw \in makeRawToken :
                 /\ \/ RowByHash(sha256Hex(raw)).id # 0
                    \/ Len(tokens) + Cardinality({q \in DOMAIN pc : pc[q] = "i_insert"}) < TokenRoom
                 /\ Goto(p, "i_insert",
                         [loc[p] EXCEPT !.rawToken = raw,
                                        !.row = NewTokenRow(p, b, raw, now)])
            /\ UNCHANGED resp
  /\ UNCHANGED <<initVars, now, tz, dbVars, faults, req, txVars>>

\* variant of IssueInsert: token_hash has no unique key
IssueInsertNoUniqueKey(p) ==
  /\ pc[p] = "i_insert"
  /\ FreeConns > 0
  /\ Len(tokens) < TokenRoom
  /\ tokens' = Append(tokens, [loc[p].row EXCEPT !.id = Len(tokens) + 1])
  /\ Send(p, [Reply(201, "ok") EXCEPT
                !.token = loc[p].rawToken,
                !.rut_jugador = loc[p].row.rut_jugador,
                !.rut_apoderado = loc[p].row.rut_apoderado,
                !.expires_at = loc[p].row.expires_at])
  /\ UNCHANGED <<initVars, now, tz, contratos, nextContratoId, rowLock, faults, req, txVars, obs>>

\* INSERT INTO contratos_firma_tokens: the unique key on token_hash rejects a
\* duplicate with errno 1062, which the handler answers with 409
IssueInsert(p) ==
  /\ pc[p] = "i_insert"
  /\ FreeConns > 0
  /\ IF RowByHash(loc[p].row.token_hash).id # 0
     THEN /\ Send(p, Reply(409, "Colision de token (intenta nuevamente)"))
          /\ UNCHANGED tokens
     ELSE /\ Len(tokens) < TokenRoom
          /\ tokens' = Append(tokens, [loc[p].row EXCEPT !.id = Len(tokens) + 1])
          /\ Send(p, [Reply(201, "ok") EXCEPT
                        !.token = loc[p].rawToken,
                        !.rut_jugador = loc[p].row.rut_jugador,
                        !.rut_apoderado = loc[p].row.rut_apoderado,
                        \* the string toMySQLDateTime(expiresAt)
                        !.expires_at = loc[p].row.expires_at])
  /\ UNCHANGED <<initVars, now, tz, contratos, nextContratoId, rowLock, faults, req, txVars, obs>>

\* a query of POST / throws an error other than 1062: 500
IssueThrow(p) ==
  /\ pc[p] \in {"i_checks", "i_insert"}
  /\ faults < MaxFaults
  /\ faults' = faults + 1
  /\ Send(p, Reply(500, "Error al crear token"))
  /\ UNCHANGED <<initVars, now, tz, dbVars, req, txVars, obs>>

(* --------------------------- specification ---------------------------- *)

\* one step of one handler, or the clock advancing
Next ==
  \/ Tick
  \/ \E p \in Procs, b \in IssueInputs : IssueStart(p, b)
  \/ \E p \in Procs : IssueChecks(p)
  \/ \E p \in Procs : IssueInsert(p)
  \/ \E p \in Procs : IssueThrow(p)
  \/ \E p \in Procs, raw \in {1, 3, 4} : ValidateStart(p, raw)
  \/ \E p \in Procs : ValidateQuery(p)
  \/ \E p \in Procs : ValidateCheck(p)
  \/ \E p \in Procs : ValidateThrow(p)
  \/ \E p \in Procs, b \in FirmarInputs : FirmarStart(p, b)
  \/ \E p \in Procs : GetConnection(p)
  \/ \E p \in Procs : BeginTransaction(p)
  \/ \E p \in Procs : SelectForUpdate(p)
  \/ \E p \in Procs : LockGranted(p)
  \/ \E p \in Procs : FirmarCheck(p)
  \/ \E p \in Procs : Rollback(p)
  \/ \E p \in Procs : InsertContrato(p)
  \/ \E p \in Procs : UpdateToken(p)
  \/ \E p \in Procs : Commit(p)
  \/ \E p \in Procs : FirmarThrow(p)
  \/ \E p \in Procs : Catch(p)

\* any number of requests served concurrently by the handlers
Spec == Init /\ [][Next]_vars

(* ------------------- the pool under load: SpecPool -------------------- *)

\* One handler more than the pool has connections
PoolProcs == 1..(connectionLimit + 1)

\* Two tokens have been issued and are valid: for raw token 1 with the RUTs
\* 1 and 1, for raw token 2 with the RUTs 3 and 3
PoolTokens ==
  [k \in 1..2 |->
     [NewTokenRow(1, IssueBody(2 * k - 1, 2 * k - 1, "a@b.cl", TRUE, 1), k, 500)
        EXCEPT !.id = k]]

\* a firmar call with a document and the terms accepted
PoolInput(raw) ==
  [token |-> raw, contrato_base64 |-> DocPdf, acepta_terminos |-> "true"]

InitPool ==
  /\ now = 500
  /\ tz = 0
  /\ tokens = PoolTokens
  /\ contratos = {}
  /\ nextContratoId = 1
  /\ rowLock = [i \in 1..2 |-> 0]
  /\ faults = 0
  /\ pc = [p \in PoolProcs |-> "idle"]
  /\ req = [p \in PoolProcs |-> NoReq]
  /\ loc = [p \in PoolProcs |-> NoLoc]
  /\ conn = [p \in PoolProcs |-> FALSE]
  /\ txIns = [p \in PoolProcs |-> NoContrato]
  /\ txUpd = [p \in PoolProcs |-> NULL]
  /\ resp = [p \in PoolProcs |-> NoReply]
  /\ obs = [p \in PoolProcs |-> NoObs]
  /\ InitDbModule

\* Each handler serves one call: as many firmar calls for raw token 1 as
\* the pool has connections, and one call more, validate or firmar, for
\* raw token 2.
NextPool ==
  \/ \E p \in {connectionLimit + 1} : req[p].op = "none" /\ ValidateStart(p, 2)
  \/ \E p \in PoolProcs : ValidateQuery(p)
  \/ \E p \in PoolProcs : ValidateCheck(p)
  \/ \E p \in PoolProcs :
       /\ req[p].op = "none"
       /\ FirmarStart(p, PoolInput(IF p <= connectionLimit THEN 1 ELSE 2))
  \/ \E p \in PoolProcs : GetConnection(p)
  \/ \E p \in PoolProcs : BeginTransaction(p)
  \/ \E p \in PoolProcs : SelectForUpdate(p)
  \/ \E p \in PoolProcs : LockGranted(p)
  \/ \E p \in PoolProcs : FirmarCheck(p)
  \/ \E p \in PoolProcs : Rollback(p)
  \/ \E p \in PoolProcs : InsertContrato(p)
  \/ \E p \in PoolProcs : UpdateToken(p)
  \/ \E p \in PoolProcs : Commit(p)

SpecPool == InitPool /\ [][NextPool]_vars

(* ------------------ firmar calls progress: SpecLive ------------------- *)

\* a step of the firmar handler that waits for nothing but the answer of
\* the datastore to the statement it sent
FirmarStep(p) ==
  \/ BeginTransaction(p)
  \/ SelectForUpdate(p)
  \/ FirmarCheck(p)
  \/ Rollback(p)
  \/ InsertContrato(p)
  \/ UpdateToken(p)
  \/ Commit(p)
  \/ Catch(p)

NextLive ==
  \/ Tick
  \/ \E p \in Procs : IssueStart(p, IssueInput)
  \/ \E p \in Procs : IssueChecks(p)
  \/ \E p \in Procs : IssueInsert(p)
  \/ \E p \in Procs : FirmarStart(p, FirmarInput)
  \/ \E p \in Procs : GetConnection(p)
  \/ \E p \in Procs : LockGranted(p)
  \/ \E p \in Procs : FirmarStep(p)
  \/ \E p \in Procs : FirmarThrow(p)

\* The datastore answers every statement; the pool serves the handlers
\* queued for a connection and the datastore the transactions queued for a
\* row lock, so a handler that can be served again and again is served.
FairLive ==
  \A p \in Procs :
    /\ WF_vars(FirmarStep(p))
    /\ SF_vars(GetConnection(p))
    /\ SF_vars(LockGranted(p))

SpecLive == Init /\ [][NextLive]_vars /\ FairLive

(* ---------------- the size of the document: SpecBytes ---------------- *)

\* A contrato_base64 string of n base64 characters, the last pad of them
\* "=", bare or behind a data-URL prefix of 28 characters
Base64Doc(prefixed, n, pad) ==
  IF prefixed
  THEN [data |-> TRUE, comma |-> 27, length |-> n + 28, pad |-> pad]
  ELSE [data |-> FALSE, comma |-> -1, length |-> n, pad |-> pad]

\* Documents of a few bytes and documents about MAX_BYTES, with 0, 1 and 2
\* padding characters, and unpadded strings of 4k + 2 and 4k + 3 characters
Base64Docs ==
  { Base64Doc(prefixed, n, pad)
      : prefixed \in BOOLEAN, n \in {12, 16777216, 16777220}, pad \in 0..2 }
  \cup
  { Base64Doc(FALSE, n, 0) : n \in {14, 15, 16777218, 16777219} }

NextBytes ==
  \/ \E p \in Procs, d \in Base64Docs :
       FirmarStart(p, [token |-> 1, contrato_base64 |-> d, acepta_terminos |-> "true"])
  \/ \E p \in Procs : GetConnection(p)
  \/ \E p \in Procs : BeginTransaction(p)
  \/ \E p \in Procs : SelectForUpdate(p)
  \/ \E p \in Procs : FirmarCheck(p)
  \/ \E p \in Procs : Rollback(p)

SpecBytes == Init /\ [][NextBytes]_vars

(* ------------------- issuance and its ttl: SpecIssue ------------------ *)

\* Bodies of POST / with ttl_minutes absent, at its least and greatest
\* accepted values, above the greatest, zero and negative
IssueTtlInputs ==
  { IssueBody(1, 1, "undefined", FALSE, 0) }
  \cup
  { IssueBody(1, 1, "undefined", TRUE, ttl)
      : ttl \in {1, MaxTtlMinutes, MaxTtlMinutes + 1, 0, -5} }

NextIssue ==
  \/ Tick
  \/ \E p \in Procs, b \in IssueInputs \cup IssueTtlInputs : IssueStart(p, b)
  \/ \E p \in Procs : IssueChecks(p)
  \/ \E p \in Procs : IssueInsert(p)
  \/ \E p \in Procs : IssueThrow(p)

SpecIssue == Init /\ [][NextIssue]_vars

(* ---------------- concurrent issuance: SpecCollision ------------------ *)

\* the table has room for one token more than in Init
InitCollision ==
  /\ now = 500
  /\ tz = 0
  /\ tokens = <<>>
  /\ contratos = {}
  /\ nextContratoId = 1
  /\ rowLock = [i \in 1..(MaxTokens + 1) |-> 0]
  /\ faults = 0
  /\ pc = [p \in Procs |-> "idle"]
  /\ req = [p \in Procs |-> NoReq]
  /\ loc = [p \in Procs |-> NoLoc]
  /\ conn = [p \in Procs |-> FALSE]
  /\ txIns = [p \in Procs |-> NoContrato]
  /\ txUpd = [p \in Procs |-> NULL]
  /\ resp = [p \in Procs |-> NoReply]
  /\ obs = [p \in Procs |-> NoObs]
  /\ InitDbModule

\* POST / for player 1 and for player 3, served concurrently
NextCollision ==
  \/ \E p \in Procs, rut \in jugadores :
       IssueStart(p, IssueBody(rut, rut, "undefined", FALSE, 0))
  \/ \E p \in Procs : IssueChecks(p)
  \/ \E p \in Procs : IssueInsert(p)
  \/ \E p \in Procs : IssueThrow(p)

SpecCollision == InitCollision /\ [][NextCollision]_vars

(* ------------ POST /contratos-jugadores: SpecContratos ---------------- *)

\* The bodies of POST /contratos-jugadores a staff caller may send
ContratoInputs ==
  { [rut_jugador |-> 1, rut_apoderado |-> ra, contrato_base64 |-> DocPdf]
      : ra \in {1, 2} }
  \cup
  { [rut_jugador |-> 1, rut_apoderado |-> 1, contrato_base64 |-> d]
      : d \in {DocShort, DocOver} }

\* CreateSchema.safeParse, then the size check
ContratoPrecheck(b) ==
  IF b.contrato_base64.length < ContratoMinLen THEN Reply(400, "Payload invalido")
  ELSE IF approxBytes(stripDataUrlPrefix(b.contrato_base64)) > MAX_BYTES
       THEN Reply(413, "El PDF excede el limite permitido")
  ELSE NoReply

ContratoStart(p, b) ==
  /\ pc[p] = "idle"
  /\ req' = [req EXCEPT ![p] =
               [NoReq EXCEPT !.op = "contrato", !.contrato_base64 = b.contrato_base64]]
  /\ obs' = [obs EXCEPT ![p] = NoObs]
  /\ IF ContratoPrecheck(b) # NoReply
     THEN Send(p, ContratoPrecheck(b))
     ELSE /\ Goto(p, "j_checks",
                  [NoLoc EXCEPT
                     !.parsed = IssueBody(b.rut_jugador, b.rut_apoderado, "undefined", FALSE, 0),
                     !.pure = stripDataUrlPrefix(b.contrato_base64)])
          /\ resp' = [resp EXCEPT ![p] = NoReply]
  /\ UNCHANGED <<initVars, now, tz, dbVars, faults, txVars>>

\* the two SELECT 1 FROM jugadores checks.  The handler goes on to its
\* INSERT only while the table has room.
ContratoChecks(p) ==
  /\ pc[p] = "j_checks"
  /\ FreeConns > 0
  /\ LET b == loc[p].parsed IN
       IF b.rut_jugador \notin jugadores
       THEN Send(p, Reply(409, "Violacion de clave foranea: rut_jugador no existe"))
       ELSE IF b.rut_apoderado \notin jugadores
       THEN Send(p, Reply(409, "Violacion de clave foranea: rut_apoderado no existe"))
       ELSE /\ Cardinality({c \in contratos : c.token_id = 0})
                 + Cardinality({q \in DOMAIN pc : pc[q] = "j_insert"}) < MaxContratos
            /\ Goto(p, "j_insert", loc[p])
            /\ UNCHANGED resp
  /\ UNCHANGED <<initVars, now, tz, dbVars, faults, req, txVars, obs>>

\* INSERT INTO contratos_jugadores ... VALUES (?, ?, NOW(), ?) through the
\* pool, committed at once; reply 201
ContratoInsert(p) ==
  /\ pc[p] = "j_insert"
  /\ FreeConns > 0
  /\ contratos' = contratos \cup
        {[id |-> nextContratoId, rut_jugador |-> loc[p].parsed.rut_jugador,
          rut_apoderado |-> loc[p].parsed.rut_apoderado,
          fecha_generacion |-> toMySQLDateTime(now),
          contrato_base64 |-> loc[p].pure, token_id |-> 0]}
  /\ nextContratoId' = nextContratoId + 1
  /\ Send(p, [Reply(201, "ok") EXCEPT
                !.contrato_id = nextContratoId,
                !.rut_jugador = loc[p].parsed.rut_jugador,
                !.rut_apoderado = loc[p].parsed.rut_apoderado])
  /\ UNCHANGED <<initVars, now, tz, tokens, rowLock, faults, req, txVars, obs>>

\* a query of POST /contratos-jugadores throws: 500
ContratoThrow(p) ==
  /\ pc[p] \in {"j_checks", "j_insert"}
  /\ faults < MaxFaults
  /\ faults' = faults + 1
  /\ Send(p, Reply(500, "Error al crear contrato"))
  /\ UNCHANGED <<initVars, now, tz, dbVars, req, txVars, obs>>

\* The routes that write the token and contract tables: POST / and
\* POST /:token/firmar of contratos_firma_tokens, POST / of contratos_jugadores
NextContratos ==
  \/ \E p \in Procs : IssueStart(p, IssueInput)
  \/ \E p \in Procs : IssueChecks(p)
  \/ \E p \in Procs : IssueInsert(p)
  \/ \E p \in Procs : FirmarStart(p, FirmarInput)
  \/ \E p \in Procs : GetConnection(p)
  \/ \E p \in Procs : BeginTransaction(p)
  \/ \E p \in Procs : SelectForUpdate(p)
  \/ \E p \in Procs : LockGranted(p)
  \/ \E p \in Procs : FirmarCheck(p)
  \/ \E p \in Procs : Rollback(p)
  \/ \E p \in Procs : InsertContrato(p)
  \/ \E p \in Procs : UpdateToken(p)
  \/ \E p \in Procs : Commit(p)
  \/ \E p \in Procs : FirmarThrow(p)
  \/ \E p \in Procs : Catch(p)
  \/ \E p \in Procs, b \in ContratoInputs : ContratoStart(p, b)
  \/ \E p \in Procs : ContratoChecks(p)
  \/ \E p \in Procs : ContratoInsert(p)
  \/ \E p \in Procs : ContratoThrow(p)

SpecContratos == Init /\ [][NextContratos]_vars

(* ---------------- config.ts initDb / getDb: SpecInitDb ---------------- *)

\* pools created so far: the attempts whose mysql.createPool returned
PoolsCreated == Cardinality({a \in 1..Len(attempts) : attempts[a].newPool # 0})

\* the async block is between its awaits
Pending(a) == a \in DOMAIN attempts /\ attempts[a].state = "pending"

\* variant of InitDbCall: no `if (initializing) return initializing`
InitDbCallNoShare(c) ==
  /\ calls[c].pc \in {"idle", "resolved", "rejected"}
  /\ IF pool # 0
     THEN /\ calls' = [calls EXCEPT ![c] = [NoCall EXCEPT !.pc = "resolved", !.result = pool]]
          /\ UNCHANGED <<pool, initializing, attempts>>
     ELSE /\ Len(attempts) < MaxAttempts
          /\ attempts' = Append(attempts,
                [at |-> "getConnection", newPool |-> PoolsCreated + 1, state |-> "pending"])
          /\ initializing' = Len(attempts) + 1
          /\ calls' = [calls EXCEPT ![c] =
                         [NoCall EXCEPT !.pc = "awaiting", !.promise = Len(attempts) + 1]]
          /\ UNCHANGED pool
  /\ UNCHANGED routerVars

\* initDb(), up to the first await of the async block it may start.
\* mysql.createPool either returns the pool or throws; when it throws, the
\* catch and finally of the block run before the block returns its (rejected)
\* promise, and `initializing = (...)()` then stores that promise.
InitDbCall(c) ==
  /\ calls[c].pc \in {"idle", "resolved", "rejected"}
  /\ IF pool # 0
     THEN /\ calls' = [calls EXCEPT ![c] = [NoCall EXCEPT !.pc = "resolved", !.result = pool]]
          /\ UNCHANGED <<pool, initializing, attempts>>
     ELSE IF initializing # 0
     THEN /\ calls' = [calls EXCEPT ![c] =
                         [NoCall EXCEPT !.pc = "awaiting", !.promise = initializing,
                                        !.joined = TRUE]]
          /\ UNCHANGED <<pool, initializing, attempts>>
     ELSE /\ Len(attempts) < MaxAttempts
          /\ \/ attempts' = Append(attempts,
                   [at |-> "getConnection", newPool |-> PoolsCreated + 1, state |-> "pending"])
             \/ attempts' = Append(attempts,
                   [at |-> "done", newPool |-> 0, state |-> "rejected"])
          /\ initializing' = Len(attempts) + 1
          /\ calls' = [calls EXCEPT ![c] =
                         [NoCall EXCEPT !.pc = "awaiting", !.promise = Len(attempts) + 1]]
          /\ pool' = 0
  /\ UNCHANGED routerVars

\* await newPool.getConnection() returned
AttemptGetConnection(a) ==
  /\ Pending(a) /\ attempts[a].at = "getConnection"
  /\ attempts' = [attempts EXCEPT ![a].at = "ping"]
  /\ UNCHANGED <<pool, initializing, calls, routerVars>>

\* await conn.ping() returned
AttemptPing(a) ==
  /\ Pending(a) /\ attempts[a].at = "ping"
  /\ attempts' = [attempts EXCEPT ![a].at = "query"]
  /\ UNCHANGED <<pool, initializing, calls, routerVars>>

\* SELECT DATABASE() returned or threw (caught); conn.release();
\* pool = newPool; db = newPool; return newPool; finally initializing = null
AttemptSucceed(a) ==
  /\ Pending(a) /\ attempts[a].at = "query"
  /\ pool' = attempts[a].newPool
  /\ initializing' = 0
  /\ attempts' = [attempts EXCEPT ![a].at = "done", ![a].state = "fulfilled"]
  /\ UNCHANGED <<calls, routerVars>>

\* getConnection or ping threw: catch { pool = null; initializing = null;
\* throw error } finally { initializing = null }
AttemptFail(a) ==
  /\ Pending(a) /\ attempts[a].at \in {"getConnection", "ping"}
  /\ pool' = 0
  /\ initializing' = 0
  /\ attempts' = [attempts EXCEPT ![a].at = "done", ![a].state = "rejected"]
  /\ UNCHANGED <<calls, routerVars>>

\* the promise initDb() returned settles as the promise of the block did
CallSettle(c) ==
  /\ calls[c].pc = "awaiting"
  /\ ~Pending(calls[c].promise)
  /\ calls' = [calls EXCEPT ![c] =
        IF attempts[calls[c].promise].state = "fulfilled"
        THEN [@ EXCEPT !.pc = "resolved", !.result = attempts[calls[c].promise].newPool]
        ELSE [@ EXCEPT !.pc = "rejected"]]
  /\ UNCHANGED <<pool, initializing, attempts, routerVars>>

\* getDb(): throws if (!pool), else returns the pool
getDb == [throws |-> pool = 0, pool |-> pool]

NextInitDb ==
  \/ \E c \in Callers : InitDbCall(c)
  \/ \E a \in Attempts : AttemptGetConnection(a)
  \/ \E a \in Attempts : AttemptPing(a)
  \/ \E a \in Attempts : AttemptSucceed(a)
  \/ \E a \in Attempts : AttemptFail(a)
  \/ \E c \in Callers : CallSettle(c)

SpecInitDb == Init /\ [][NextInitDb]_vars

(* --------------- the global onRequest hook: SpecGuard ----------------- *)

\* The Authorization header of a request: absent, a Bearer JWT that
\* jwt.verify accepts, a Bearer JWT that jwt.verify rejects
Authorizations == {"none", "Bearer valid", "Bearer expired"}

\* The URLs of the three routes, under the prefix registerRoutes gives them
UrlIssue == "/api/contratos-firma-tokens"
UrlValidate == "/api/contratos-firma-tokens/:token"
UrlFirmar == "/api/contratos-firma-tokens/:token/firmar"

\* PUBLIC.some(rx => rx.test(req.url)): the URLs the list of patterns matches
PUBLIC(url) ==
  url \in {"/", "/api", "/health", "/api/health", "/auth/login", "/auth/logout",
           "/docs", "/swagger", "/favicon.ico", "/robots.txt"}

\* The onRequest hook: NoReply when the request goes on to its handler,
\* the 401 reply otherwise
onRequest(method, url, authorization) ==
  IF method \in {"OPTIONS", "HEAD"} THEN NoReply
  ELSE IF PUBLIC(url) THEN NoReply
  ELSE IF authorization = "none" THEN Reply(401, "Falta Bearer token")
  ELSE IF authorization # "Bearer valid" THEN Reply(401, "Token invalido o expirado")
  ELSE NoReply

\* the hook answered 401: the handler is not called
Unauthorized(p, op, raw, r) ==
  /\ pc[p] = "idle"
  /\ req' = [req EXCEPT ![p] = [NoReq EXCEPT !.op = op, !.token = raw]]
  /\ obs' = [obs EXCEPT ![p] = NoObs]
  /\ Send(p, r)
  /\ UNCHANGED <<initVars, now, tz, dbVars, faults, txVars>>

\* a request for POST /, GET /:token, POST /:token/firmar passes the hook
\* and then its handler
RequestIssue(p, b, authorization) ==
  IF onRequest("POST", UrlIssue, authorization) # NoReply
  THEN Unauthorized(p, "issue", 0, onRequest("POST", UrlIssue, authorization))
  ELSE IssueStart(p, b)

RequestValidate(p, raw, authorization) ==
  IF onRequest("GET", UrlValidate, authorization) # NoReply
  THEN Unauthorized(p, "validate", raw, onRequest("GET", UrlValidate, authorization))
  ELSE ValidateStart(p, raw)

RequestFirmar(p, b, authorization) ==
  IF onRequest("POST", UrlFirmar, authorization) # NoReply
  THEN Unauthorized(p, "firmar", b.token, onRequest("POST", UrlFirmar, authorization))
  ELSE FirmarStart(p, b)

NextGuard ==
  \/ \E p \in Procs, a \in Authorizations : RequestIssue(p, IssueInput, a)
  \/ \E p \in Procs : IssueChecks(p)
  \/ \E p \in Procs : IssueInsert(p)
  \/ \E p \in Procs, a \in Authorizations : RequestValidate(p, 1, a)
  \/ \E p \in Procs : ValidateQuery(p)
  \/ \E p \in Procs : ValidateCheck(p)
  \/ \E p \in Procs, a \in Authorizations : RequestFirmar(p, FirmarInput, a)
  \/ \E p \in Procs : GetConnection(p)
  \/ \E p \in Procs : BeginTransaction(p)
  \/ \E p \in Procs : SelectForUpdate(p)
  \/ \E p \in Procs : LockGranted(p)
  \/ \E p \in Procs : FirmarCheck(p)
  \/ \E p \in Procs : Rollback(p)
  \/ \E p \in Procs : InsertContrato(p)
  \/ \E p \in Procs : UpdateToken(p)
  \/ \E p \in Procs : Commit(p)

SpecGuard == Init /\ [][NextGuard]_vars

(* ------------------------------ properties ---------------------------- *)

\* handler p has replied to a request of kind o
Replied(p, o) == pc[p] = "idle" /\ req[p].op = o

\* the reply of p reports a datastore error caught by the handler
Failed(p) == resp[p].code = 500 \/ resp[p] = CatchReply(ER_NO_REFERENCED_ROW_2)

\* the rows of contratos_jugadores that the consumption of token k inserted
ContratosOf(k) == {c \in contratos : c.token_id = k}

\* the handlers holding a 201 reply to a firmar request for the token of row k
SignersOf(k) ==
  {p \in Procs : /\ Replied(p, "firmar")
                 /\ resp[p].code = 201
                 /\ TokenParamOk(req[p].token)
                 /\ sha256Hex(req[p].token) = tokens[k].token_hash}

\* C1: of the firmar calls made with one raw token, however they interleave,
\* at most one replies 201 and at most one contract row is inserted for the
\* token; every call that found the row and met no datastore error replies
\* 201, 409 (already used) or 410 (expired), and a call that had to wait for
\* the row lock of a committing call replies 409 or 410.
C1_SingleWinner ==
  /\ \A k \in 1..Len(tokens) :
       /\ Cardinality(ContratosOf(k)) <= 1
       /\ Cardinality(SignersOf(k)) <= 1
       /\ Cardinality(SignersOf(k)) <= Cardinality(ContratosOf(k))
  /\ \A p \in Procs :
       (Replied(p, "firmar") /\ obs[p].found /\ ~Failed(p))
         => /\ resp[p].code \in {201, 409, 410}
            /\ (obs[p].used \/ obs[p].clock = "after") => resp[p].code \in {409, 410}
            /\ resp[p].code = 409 => resp[p].message = "Token ya fue usado"

\* two calls raced for one token: one holds the 201, the other waited for the
\* row lock and was answered 409
C1_Witness ==
  \E p, q \in Procs :
    /\ p # q
    /\ Replied(p, "firmar") /\ resp[p].code = 201
    /\ Replied(q, "firmar") /\ resp[q].code = 409
    /\ req[p].token = req[q].token
    /\ obs[q].waited /\ obs[q].used

\* C2: in the committed tables a token has used_at set exactly when the
\* contract row inserted by the consuming transaction is there: the insert
\* and the update become visible together at commit or not at all.
C2_Atomic ==
  \A k \in 1..Len(tokens) :
    (tokens[k].used_at # NULL) <=> (ContratosOf(k) # {})

\* a consumption committed after an earlier attempt had inserted a contract
\* row and was rolled back
C2_Witness ==
  /\ \E k \in 1..Len(tokens) : tokens[k].used_at # NULL /\ ContratosOf(k) # {}
  /\ nextContratoId > Cardinality(contratos) + 1

\* C3: two firmar calls with one raw token, the second sent after the first
\* committed: the second is answered 409 (already used) and one contract row
\* results.  A late call is one that arrived when the token's used_at was
\* already committed, that is after the consuming call was answered 201.
C3_SecondAlreadyUsed ==
  \A p \in Procs :
    (Replied(p, "firmar") /\ obs[p].late /\ ~Failed(p))
      => /\ resp[p].code = 409
         /\ \A k \in 1..Len(tokens) : Cardinality(ContratosOf(k)) <= 1

\* C4: used_at is write-once with a single writer: a row is born with used_at
\* NULL, and used_at changes only from NULL to a value, in the step in which
\* a firmar handler that locked that row commits and replies 201.
C4_WriteOnce ==
  [][ /\ Len(tokens') >= Len(tokens)
      /\ \A k \in 1..Len(tokens') :
           IF k > Len(tokens)
           THEN tokens'[k].used_at = NULL
           ELSE tokens'[k].used_at # tokens[k].used_at
                  => /\ tokens[k].used_at = NULL
                     /\ tokens'[k].used_at # NULL
                     /\ \E p \in Procs :
                          /\ pc[p] = "c_commit" /\ pc'[p] = "idle"
                          /\ resp'[p].code = 201
                          /\ loc[p].t.id = k
                          /\ rowLock[k] = p ]_vars

\* a used token was presented again, to a later validate or firmar call, and
\* its used_at stands
C4_Witness ==
  \E p \in Procs, k \in 1..Len(tokens) :
    /\ tokens[k].used_at # NULL
    /\ pc[p] = "idle" /\ req[p].op \in {"validate", "firmar"}
    /\ obs[p].found /\ obs[p].used
    /\ now > UtcMs(tokens[k].used_at) + 999

\* C5: the status is derived in the order not found, used, expired: whoever
\* reads a row whose used_at is set, validate or firmar, answers 409, also
\* when Date.now() is past expires_at.
C5_UsedBeforeExpired ==
  \A p \in Procs :
    (pc[p] = "idle" /\ req[p].op \in {"validate", "firmar"}
       /\ obs[p].found /\ obs[p].used /\ ~Failed(p))
      => resp[p].code = 409

C8_TermsRequired ==
  \A p \in Procs :
    (req[p].op = "firmar" /\ req[p].acepta_terminos # "true")
      => /\ pc[p] = "idle" /\ resp[p].code = 400
         /\ ~conn[p] /\ txIns[p] = NoContrato /\ txUpd[p] = NULL

\* the size the limit is compared with: 3/4 of the base64 text that follows
\* the data-URL prefix
DocumentBytes(doc) ==
  ((IF doc.data /\ doc.comma >= 0 THEN doc.length - doc.comma - 1 ELSE doc.length) * 3) \div 4

\* C9: a firmar request that is otherwise acceptable and whose document
\* exceeds MAX_BYTES is answered 413 in the step that receives it: no
\* connection is taken, no transaction is opened, no row is locked or
\* written, so the token stays as it was.
C9_TooLargeBeforeDatastore ==
  \A p \in Procs :
    (req[p].op = "firmar" /\ DocumentBytes(req[p].contrato_base64) > MAX_BYTES
       /\ req[p].acepta_terminos = "true" /\ RawLen(req[p].token) \in 10..300)
      => /\ pc[p] = "idle" /\ resp[p].code = 413
         /\ ~conn[p] /\ txIns[p] = NoContrato /\ txUpd[p] = NULL
         /\ \A k \in 1..Len(tokens) : rowLock[k] # p

\* a 50 MB document was refused with 413 for a token that another call with a
\* valid-size document then consumed
C9_Witness ==
  \E p, q \in Procs :
    /\ Replied(p, "firmar") /\ req[p].contrato_base64 = Doc50MB /\ resp[p].code = 413
    /\ Replied(q, "firmar") /\ req[q].token = req[p].token /\ resp[q].code = 201
    /\ ~obs[q].waited

\* C10: a firmar call that ends otherwise than with 201 changes neither table:
\* every step of a firmar handler leaves the committed token and contract
\* rows as they are, except the step that commits and replies 201.
C10_FailureLeavesNoTrace ==
  [][ \A p \in Procs :
        (req'[p].op = "firmar" /\ (pc'[p] # pc[p] \/ req'[p] # req[p] \/ resp'[p] # resp[p])
           /\ ~(pc[p] = "c_commit" /\ pc'[p] = "idle" /\ resp'[p].code = 201))
          => (tokens' = tokens /\ contratos' = contratos) ]_vars

\* a call failed with 500 after its contract insert (contract id 1 was drawn
\* and discarded) and a later call with the same raw token signed: the one
\* contract row carries id 2
C10_Witness ==
  \E p, q \in Procs :
    /\ Replied(p, "firmar") /\ resp[p].code = 500
    /\ obs[p].found /\ ~obs[p].used /\ obs[p].clock # "after"
    /\ Replied(q, "firmar") /\ req[q].token = req[p].token
    /\ resp[q].code = 201 /\ resp[q].contrato_id = 2
    /\ Cardinality(contratos) = 1

\* C11: whatever way a firmar call ends after its transaction began (404, 410,
\* 409, a thrown datastore error, or 201), the handler that has replied holds
\* no pooled connection, no row lock and no pending write; a row lock is only
\* ever held by a handler that holds a connection and has not replied yet.
C11_NothingHeldAfterReply ==
  /\ \A p \in Procs :
       pc[p] = "idle"
         => /\ ~conn[p] /\ txIns[p] = NoContrato /\ txUpd[p] = NULL
            /\ \A k \in DOMAIN rowLock : rowLock[k] # p
  /\ \A k \in DOMAIN rowLock :
       rowLock[k] # 0 => (conn[rowLock[k]] /\ pc[rowLock[k]] # "idle")

\* one call was refused with 410 on the row it had locked, another failed
\* with 500 after locking the row, and the pool and the row are free again
C11_Witness ==
  \E p, q \in Procs :
    /\ Replied(p, "firmar") /\ resp[p].code = 410 /\ obs[p].found
    /\ Replied(q, "firmar") /\ resp[q].code = 500 /\ obs[q].found
    /\ FreeConns = connectionLimit
    /\ \A k \in DOMAIN rowLock : rowLock[k] = 0

\* C12: an issue call whose INSERT hits a duplicate token_hash draws a fresh
\* raw token and tries again; the collision error reaches the caller only
\* after more than one draw.
C12_CollisionRetried ==
  \A p \in Procs :
    (Replied(p, "issue") /\ resp[p].message = "Colision de token (intenta nuevamente)")
      => obs[p].draws > 1

\* C13: a token row is inserted only for a rut_jugador that is a player on
\* record and a rut_apoderado that is a guardian on record.
C13_RutsResolve ==
  \A k \in 1..Len(tokens) :
    /\ tokens[k].rut_jugador \in jugadores
    /\ tokens[k].rut_apoderado \in apoderados

\* C14: a validate call with the raw token of an issued, unconsumed token,
\* made before the expires_at that issuance stored and returned, is answered
\* 200 with the token's rut_jugador and rut_apoderado and with an expires_at
\* that is the instant issuance stored (created_at + ttl).
C14_ValidAfterIssue ==
  \A p \in Procs :
    LET row == RowByHash(sha256Hex(req[p].token)) IN
      (Replied(p, "validate") /\ TokenParamOk(req[p].token) /\ row.id # 0
         /\ obs[p].found /\ ~obs[p].used /\ now < UtcMs(row.expires_at)
         /\ resp[p].code # 500)
        => /\ resp[p].code = 200
           /\ resp[p].rut_jugador = row.rut_jugador
           /\ resp[p].rut_apoderado = row.rut_apoderado
           /\ resp[p].expires_at = UtcMs(row.expires_at)
           /\ \E b \in IssueInputs :
                row.expires_at = row.created_at + TtlOf(b) * 60

\* C15: validate never mutates state: every step of a validate handler,
\* whatever it replies (400, 404, 409, 410, 200, 500), leaves the token table,
\* the contract table, its id counter and the row locks unchanged, also while
\* firmar handlers are at work.
C15_ValidateReadOnly ==
  [][ \A p \in Procs :
        (req'[p].op = "validate"
           /\ (pc'[p] # pc[p] \/ req'[p] # req[p] \/ resp'[p] # resp[p]))
          => /\ tokens' = tokens /\ contratos' = contratos
             /\ nextContratoId' = nextContratoId /\ rowLock' = rowLock ]_vars

\* a validate call was answered 200 for a token that a firmar handler holds
\* locked, with the contract insert and the used_at update pending
C15_Witness ==
  \E p, q \in Procs :
    /\ Replied(p, "validate") /\ resp[p].code = 200
    /\ pc[q] = "c_commit" /\ req[q].token = req[p].token
    /\ txUpd[q] # NULL /\ rowLock[loc[q].t.id] = q

\* C18: a firmar call whose locking read ran into the lock wait timeout is
\* answered with an error distinct from the generic failure reply.
C18_BusyIsDistinct ==
  \A p \in Procs :
    (Replied(p, "firmar") /\ resp[p].error = ER_LOCK_WAIT_TIMEOUT)
      => ~(resp[p].code = 500 /\ resp[p].message = "Error al firmar/guardar contrato")

\* C19: the raw token is disclosed by the issuance reply only: a token row
\* holds the hash of a raw token and no column for the raw token, no reply of
\* validate or firmar carries a token key, and the reply validate sends is
\* computed from the row without looking at its token_hash.
C19_RawTokenUndisclosed ==
  /\ [](\A k \in 1..Len(tokens) :
          /\ DOMAIN tokens[k] = DOMAIN NoRow
          /\ \E raw \in makeRawToken :
               tokens[k].token_hash = sha256Hex(raw) /\ tokens[k].token_hash # raw)
  /\ [](\A p \in Procs :
          (pc[p] = "idle" /\ req[p].op \in {"validate", "firmar"})
            => (resp[p].token = 0 /\ DOMAIN resp[p] = DOMAIN NoReply))
  /\ [][ \A p \in Procs :
           (pc[p] = "v_check" /\ pc'[p] = "idle")
             => resp'[p] = ValidateReply([loc[p].t EXCEPT !.token_hash = 0], now) ]_vars

\* issuance returned a raw token whose hash is in the table, and a validate
\* and a firmar call presenting that raw token were answered 200 and 201
C19_Witness ==
  \E p, q \in Procs :
    /\ Len(tokens) > 0 /\ tokens[1].token_hash = sha256Hex(req[p].token)
    /\ Replied(p, "validate") /\ resp[p].code = 200
    /\ Replied(q, "firmar") /\ resp[q].code = 201 /\ req[q].token = req[p].token

\* C20: a validate or firmar call whose raw token is malformed, by its length
\* (under 10 or over 300 characters) or by its characters (not URL-safe), is
\* answered 400 in the step that receives it, before any lookup.
C20_MalformedRejected ==
  \A p \in Procs :
    (req[p].op \in {"validate", "firmar"}
       /\ ~(RawLen(req[p].token) \in 10..300 /\ UrlSafe(req[p].token)))
      => (pc[p] = "idle" /\ resp[p].code = 400)

\* C16: a validate call never waits on firmar transactions: whenever a
\* validate handler is about to run its query, the pool has a connection for it.
C16_ValidateNeverWaits ==
  \A p \in DOMAIN pc : pc[p] = "v_query" => FreeConns > 0

\* C17: a firmar call for one token is never delayed by calls for another:
\* whenever a firmar handler asks for a connection while every connection
\* in use belongs to a call for a different token, the pool has one for it.
C17_OtherTokenNeverWaits ==
  \A p \in DOMAIN pc :
    (pc[p] = "c_getconn"
       /\ \A q \in DOMAIN pc : conn[q] => req[q].token # req[p].token)
      => FreeConns > 0

\* C21: the token routes are public: a validate or firmar request is never
\* turned away for want of a staff session (401).
C21_TokenRoutesPublic ==
  \A p \in Procs : req[p].op \in {"validate", "firmar"} => resp[p].code # 401

\* C22: token rows and contract rows are never deleted and contract rows are
\* never modified: in every step the token table keeps each of its rows (by
\* id and token_hash) and every contract row of the table is still in it,
\* unchanged.
C22_AppendOnly ==
  [][ /\ Len(tokens') >= Len(tokens)
      /\ \A k \in 1..Len(tokens) :
           /\ tokens'[k].id = tokens[k].id
           /\ tokens'[k].token_hash = tokens[k].token_hash
      /\ contratos \subseteq contratos' ]_vars

\* the contract table holds a row inserted by a consumption and a row
\* inserted through POST /contratos-jugadores, and the token is used
C22_Witness ==
  /\ \E c, d \in contratos : c.token_id = 0 /\ d.token_id # 0 /\ c.id < d.id
  /\ Len(tokens) = 1 /\ tokens[1].used_at # NULL

\* C29: every contract row was inserted by a committed consumption: the
\* contract table has as many rows as there are tokens with used_at set.
C29_ContractsMatchUsedTokens ==
  Cardinality(contratos)
    = Cardinality({k \in 1..Len(tokens) : tokens[k].used_at # NULL})

\* C23: every stored token has expires_at after created_at, by the ttl
\* requested, by 72 hours when no ttl was given, and by 14 days at most; a
\* request whose ttl is not positive or is above 14 days does not get past
\* the parse, is answered 400 and inserts nothing.
C23_TtlBounded ==
  /\ [](\A k \in 1..Len(tokens) :
          /\ tokens[k].expires_at > tokens[k].created_at
          /\ tokens[k].expires_at - tokens[k].created_at <= 14 * 24 * 60 * 60)
  /\ [][ \A p \in Procs :
           (pc[p] = "i_insert" /\ pc'[p] = "idle" /\ Len(tokens') > Len(tokens))
             => LET row == tokens'[Len(tokens')]
                    b == loc[p].parsed
                IN  row.expires_at - row.created_at
                      = (IF b.ttl_given THEN b.ttl_minutes * 60 ELSE 72 * 60 * 60) ]_vars
  /\ [][ \A p \in Procs :
           (pc[p] = "idle" /\ req'[p].op = "issue" /\ pc'[p] # "idle")
             => (loc'[p].parsed.ttl_given
                   => loc'[p].parsed.ttl_minutes \in 1..(14 * 24 * 60)) ]_vars
  /\ [][ \A p \in Procs :
           (pc[p] = "idle" /\ req'[p].op = "issue" /\ pc'[p] = "idle"
              /\ resp'[p] # resp[p])
             => (resp'[p].code = 400 /\ tokens' = tokens) ]_vars

\* a token issued without ttl is stored with 72 hours to live, and a
\* request was answered 400
C23_Witness ==
  /\ Len(tokens) = 1
  /\ tokens[1].expires_at - tokens[1].created_at = 72 * 60 * 60
  /\ \E p \in Procs : Replied(p, "issue") /\ resp[p].code = 400

\* C24: a token's token_hash, rut_jugador, rut_apoderado, email_destino,
\* created_at and expires_at never change; a token row changes only in the
\* step in which a firmar call for that token commits, which changes used_at
\* and ip_used of that row only, leaves every other token row as it was and
\* inserts one contract row with the rut_jugador and rut_apoderado of that token.
C24_ConsumeFrame ==
  [][ \A k \in 1..Len(tokens) :
        /\ tokens'[k].token_hash = tokens[k].token_hash
        /\ tokens'[k].rut_jugador = tokens[k].rut_jugador
        /\ tokens'[k].rut_apoderado = tokens[k].rut_apoderado
        /\ tokens'[k].email_destino = tokens[k].email_destino
        /\ tokens'[k].created_at = tokens[k].created_at
        /\ tokens'[k].expires_at = tokens[k].expires_at
        /\ tokens'[k] # tokens[k]
             => /\ \E p \in DOMAIN pc :
                     /\ pc[p] = "c_commit" /\ pc'[p] = "idle"
                     /\ sha256Hex(req[p].token) = tokens[k].token_hash
                /\ \A j \in 1..Len(tokens) : j # k => tokens'[j] = tokens[j]
                /\ \E c \in contratos' :
                     /\ contratos' \ contratos = {c}
                     /\ c.rut_jugador = tokens[k].rut_jugador
                     /\ c.rut_apoderado = tokens[k].rut_apoderado ]_vars

\* both tokens were consumed, each with a contract row carrying its RUTs
C24_Witness ==
  /\ Len(tokens) = 2
  /\ tokens[1].rut_jugador # tokens[2].rut_jugador
  /\ \A k \in 1..2 :
       /\ tokens[k].used_at # NULL
       /\ \E c \in contratos :
            /\ c.token_id = k
            /\ c.rut_jugador = tokens[k].rut_jugador
            /\ c.rut_apoderado = tokens[k].rut_apoderado

\* the number of bytes the base64 text of a document decodes to: 3 for
\* every 4 characters, less the padding, or 1 and 2 for the 2 and 3
\* characters that end an unpadded text
DecodedLength(doc) ==
  LET n == IF doc.data /\ doc.comma >= 0 THEN doc.length - doc.comma - 1 ELSE doc.length
  IN  (n \div 4) * 3 - doc.pad
        + (CASE n % 4 = 2 -> 1 [] n % 4 = 3 -> 2 [] OTHER -> 0)

\* C25: the size a firmar call compares with the limit is the number of
\* bytes its document decodes to.
C25_SizeIsDecodedLength ==
  \A p \in Procs :
    req[p].op = "firmar"
      => approxBytes(stripDataUrlPrefix(req[p].contrato_base64))
           = DecodedLength(req[p].contrato_base64)

\* C28: no two token rows share a token_hash; an INSERT whose token_hash is
\* that of an existing row adds no row, leaves the table as it was and is
\* answered with an error, and a 201 carries the raw token of the row that
\* the call added.
C28_HashUnique ==
  /\ [](\A j, k \in 1..Len(tokens) :
          j # k => tokens[j].token_hash # tokens[k].token_hash)
  /\ [][ \A p \in Procs :
           (pc[p] = "i_insert" /\ pc'[p] = "idle")
             => IF \E k \in 1..Len(tokens) : tokens[k].token_hash = loc[p].row.token_hash
                THEN tokens' = tokens /\ resp'[p].code >= 400
                ELSE resp'[p].code = 201
                       => /\ Len(tokens') = Len(tokens) + 1
                          /\ \A k \in 1..Len(tokens) : tokens'[k] = tokens[k]
                          /\ tokens'[Len(tokens')].token_hash = sha256Hex(resp'[p].token)
                          /\ tokens'[Len(tokens')].rut_jugador = resp'[p].rut_jugador ]_vars

\* two tokens were issued, for different players, and a call that drew the
\* raw token of an existing row was answered 409
C28_Witness ==
  /\ Len(tokens) = 2
  /\ tokens[1].rut_jugador # tokens[2].rut_jugador
  /\ \E p \in Procs :
       /\ Replied(p, "issue") /\ resp[p].code = 409
       /\ resp[p].message = "Colision de token (intenta nuevamente)"

\* C30: every firmar call eventually returns a response, and a 201 is sent
\* only in the step in which the commit has made the contract row and the
\* used_at of the token visible.
C30_FirmarReturns ==
  /\ \A p \in Procs :
       (req[p].op = "firmar" /\ pc[p] # "idle") ~> (req[p].op = "firmar" /\ pc[p] = "idle")
  /\ [][ \A p \in Procs :
           (req'[p].op = "firmar" /\ resp'[p].code = 201 /\ resp'[p] # resp[p])
             => /\ pc[p] = "c_commit" /\ pc'[p] = "idle"
                /\ \E c \in contratos' : c.id = resp'[p].contrato_id
                /\ tokens'[loc[p].t.id].used_at # NULL ]_vars

\* a firmar call that waited for the row lock got its reply after the
\* holder of the lock failed and rolled back
C30_Witness ==
  \E p, q \in Procs :
    /\ Replied(p, "firmar") /\ obs[p].waited /\ resp[p].code = 201
    /\ Replied(q, "firmar") /\ resp[q].code = 500

C27_FailureClearsState ==
  /\ (pool = 0 /\ \A a \in 1..Len(attempts) : ~Pending(a)) => initializing = 0
  /\ getDb.throws <=> (\A a \in 1..Len(attempts) : attempts[a].state # "fulfilled")

====
